---- MODULE Spec2Model ----
(***************************************************************************)
(* Model of crew-review-system/crew-review.py: the two file-writing tools  *)
(* (MarkdownTableTool, CSVWriterTool), the table they build from a list of *)
(* records, and the script that wires three tasks into a sequential crew.  *)
(*                                                                         *)
(* Three specifications share the variables below:                        *)
(*   RenderSpec  the table built from one input list (pure functions)      *)
(*   SinkSpec    tool calls against a small file system                    *)
(*   Spec        one run of the script, from load_dotenv() to print()      *)
(***************************************************************************)
EXTENDS Integers, Sequences, FiniteSets, TLC

VARIABLES
    \* ---- RenderSpec
    rs,         \* the input list of records
    df,         \* the DataFrame built from it
    mdText,     \* the lines of df.to_markdown(index=False)
    csvText,    \* the lines df.to_csv writes
    rpc,        \* position of the rendering
    \* ---- SinkSpec
    fs,         \* path -> file content (a sequence of written units)
    exists,     \* the paths that exist
    call,       \* the tool call in progress, or the last one
    buf,        \* units written to the open file object and not yet in the file
    prev,       \* the call that ended before `call` was entered
    ncalls,     \* the calls entered so far
    \* ---- Spec
    pc,         \* position of the script
    osenv,      \* keys set in the process environment
    dotfile,    \* keys set in the .env file
    env,        \* os.environ as the script sees it
    built,      \* collaborator tools constructed so far
    agents,     \* the agents create_agents returned
    tasks,      \* the tasks create_tasks returned, in the order of the Crew
    crew,       \* the Crew object
    stage,      \* task index -> "pending" | "running" | "done" | "failed"
    ctxIn,      \* task index -> the outputs handed to it as context
    outputs,    \* task index -> the output it produced
    collab,     \* the collaborator calls made, oldest first
    exc,        \* the exception that is propagating, if any
    result,     \* the module-level name `result`
    stdout      \* what print() wrote

renderVars == <<rs, df, mdText, csvText, rpc>>
sinkVars   == <<fs, exists, call, buf, prev, ncalls>>
pipeVars   == <<pc, osenv, dotfile, env, built, agents, tasks, crew, stage,
                ctxIn, outputs, collab, exc, result, stdout>>
vars       == <<renderVars, sinkVars, pipeVars>>

\* Each specification moves its own variables and leaves the others alone.
PipeOnly == UNCHANGED <<renderVars, sinkVars>>
SinkOnly == UNCHANGED <<renderVars, pipeVars>>
RenderOnly == UNCHANGED <<sinkVars, pipeVars>>

Range(s) == {s[i] : i \in 1..Len(s)}

IsPrefix(s, t) == Len(s) <= Len(t) /\ SubSeq(t, 1, Len(s)) = s

None == "None"

(***************************************************************************)
(* Records and the table built from them.                                  *)
(* A record is a Python dict: a sequence of <<key, value>> pairs in        *)
(* insertion order, with distinct keys.                                    *)
(***************************************************************************)

\* Longest input list drawn in RenderSpec.
MaxLen == 2

FieldValues(k) ==
    CASE k = "name"  -> {"A", "B"}
      [] k = "price" -> {"$10"}
      [] k = "ports" -> {"4"}

FieldNames == {"name", "price", "ports"}

Pair == UNION {{<<k, v>> : v \in FieldValues(k)} : k \in FieldNames}

DistinctKeys(rec) ==
    \A i, j \in 1..Len(rec) : i # j => rec[i][1] # rec[j][1]

Records ==
    {rec \in UNION {[1..n -> Pair] : n \in 0..Cardinality(FieldNames)} :
        DistinctKeys(rec)}

RecordSets == UNION {[1..n -> Records] : n \in 0..MaxLen}

\* The float NaN pandas stores where a record has no value for a column.
NaN == "NaN"

KeysOf(rec) == [i \in 1..Len(rec) |-> rec[i][1]]

HasKey(rec, k) == \E i \in 1..Len(rec) : rec[i][1] = k

ValueOf(rec, k) == rec[CHOOSE i \in 1..Len(rec) : rec[i][1] = k][2]

RECURSIVE AppendUnseen(_, _)
AppendUnseen(cols, keys) ==
    IF keys = <<>> THEN cols
    ELSE AppendUnseen(IF Head(keys) \in Range(cols) THEN cols
                      ELSE Append(cols, Head(keys)),
                      Tail(keys))

RECURSIVE ColumnsFrom(_, _)
ColumnsFrom(R, cols) ==
    IF R = <<>> THEN cols
    ELSE ColumnsFrom(Tail(R), AppendUnseen(cols, KeysOf(Head(R))))

\* A plausible slip: the columns are taken from the first record alone.
ColumnsFirstRecordOnly(R) ==
    IF R = <<>> THEN <<>> ELSE KeysOf(Head(R))

\* pd.DataFrame(list of dicts): the columns are the keys in first-seen order.
Columns(R) == ColumnsFrom(R, <<>>)

\* pd.DataFrame(data): one row per record, NaN where the record lacks the key.
DataFrame(R) ==
    LET cols == Columns(R)
    IN  [columns |-> cols,
         rows    |-> [i \in 1..Len(R) |->
                        [j \in 1..Len(cols) |->
                            IF HasKey(R[i], cols[j])
                            THEN ValueOf(R[i], cols[j])
                            ELSE NaN]]]

\* How each serialisation prints a missing value.
MdCell(v)  == IF v = NaN THEN "nan" ELSE v
CsvCell(v) == IF v = NaN THEN "" ELSE v

\* The units a file is made of: <<kind, cells>>.
Separator == <<"\n\n", <<>>>>

\* df.to_markdown(index=False): header, rule, one line per row; "" for a
\* frame with neither columns nor rows.
ToMarkdown(d) ==
    IF d.columns = <<>> /\ d.rows = <<>> THEN <<>>
    ELSE <<  <<"header", d.columns>>,
             <<"rule", [j \in 1..Len(d.columns) |-> ":---"]>>  >>
         \o [i \in 1..Len(d.rows) |->
                <<"row", [j \in 1..Len(d.columns) |-> MdCell(d.rows[i][j])]>>]

\* df.to_csv(file, index=False): the header line, then one line per row.
ToCsv(d) ==
    << <<"header", d.columns>> >>
    \o [i \in 1..Len(d.rows) |->
           <<"row", [j \in 1..Len(d.columns) |-> CsvCell(d.rows[i][j])]>>]


(***************************************************************************)
(* The tools.  A call runs in steps so that the states between open() and  *)
(* close() are states of the model: a file object buffers what is written  *)
(* to it and the file itself receives the buffer in pieces, at the latest  *)
(* when the file is closed.                                                *)
(***************************************************************************)

\* Tool calls made in one behaviour of SinkSpec.
MaxCalls == 2

\* markdown_output and csv_output, the default file_name of each tool.
Paths == {"router_review.md", "router_review.csv"}

\* A string the file's encoding cannot encode (a lone surrogate).
Surrogate == "U+D800"

ExampleRecords ==
    << << <<"name", "A">>, <<"price", "$10">> >>,
       << <<"name", "B">>, <<"ports", "4">> >> >>

OneRecord == << << <<"name", "B">> >> >>

SurrogateRecords ==
    << << <<"name", "A">> >>, << <<"name", Surrogate>> >> >>

\* The `data` arguments drawn: lists of records, and a value that is no list.
SinkInputs ==
    { [type |-> "list", items |-> ExampleRecords],
      [type |-> "list", items |-> OneRecord],
      [type |-> "list", items |-> SurrogateRecords],
      [type |-> "str",  items |-> <<>>] }

NoData == [type |-> None, items |-> <<>>]

NoErr == [exc |-> None, errno |-> None, filename |-> None]

IdleCall ==
    [tool |-> None, path |-> None, append |-> FALSE, data |-> NoData,
     pc |-> "idle", before |-> <<>>, existed |-> FALSE,
     text |-> <<>>, todo |-> <<>>, err |-> NoErr]

Ended == {"idle", "returned", "raised", "killed"}

Unencodable(lines) ==
    \E i \in 1..Len(lines) : Surrogate \in Range(lines[i][2])

\* The call ends: control leaves _run with a value, an exception, or the
\* process is gone.
End(outcome, err) ==
    /\ call' = [call EXCEPT !.pc = outcome, !.err = err]
    /\ UNCHANGED <<prev, ncalls>>

\* What is kept of a call once the next one is entered.
Summary(c) ==
    [tool |-> c.tool, path |-> c.path, append |-> c.append,
     data |-> c.data, outcome |-> c.pc]

Enter(tool, data, path, append) ==
    /\ call.pc \in Ended
    /\ ncalls < MaxCalls
    /\ call' = [IdleCall EXCEPT !.tool = tool, !.path = path,
                                !.append = append, !.data = data,
                                !.pc = "frame", !.before = fs[path],
                                !.existed = (path \in exists)]
    /\ buf' = <<>>
    /\ prev' = Summary(call)
    /\ ncalls' = ncalls + 1
    /\ UNCHANGED <<fs, exists>>

\* MarkdownTableTool._run(data, file_name, append)
MdRun(data, path, append) ==
    /\ SinkOnly
    /\ Enter("md", data, path, append)

\* df = pd.DataFrame(data); markdown_table = df.to_markdown(index=False)
MdFrame ==
    /\ SinkOnly
    /\ call.tool = "md" /\ call.pc = "frame"
    /\ IF call.data.type # "list"
       THEN End("raised", [NoErr EXCEPT !.exc = "ValueError"])
       ELSE /\ call' = [call EXCEPT
                          !.text = ToMarkdown(DataFrame(call.data.items)),
                          !.pc = "open"]
            /\ UNCHANGED <<prev, ncalls>>
    /\ UNCHANGED <<fs, exists, buf>>

\* A slip: append mode opened with 'w'.
OpenTruncatesAlways(append) == TRUE

\* mode = 'a' if append else 'w': whether open() empties the file.
OpenTruncates(append) == ~append

\* if append: f.write('\n\n')
WritesSeparator(append) == append

\* with open(file_name, mode) as f: the open succeeds.
MdOpen ==
    /\ SinkOnly
    /\ call.tool = "md" /\ call.pc = "open"
    /\ exists' = exists \cup {call.path}
    /\ fs' = [fs EXCEPT ![call.path] =
                IF OpenTruncates(call.append) THEN <<>> ELSE @]
    /\ call' = [call EXCEPT !.pc = "write_sep"]
    /\ UNCHANGED <<buf, prev, ncalls>>

\* open() raises PermissionError: the exception names the path.
OpenDenied ==
    /\ SinkOnly
    /\ call.pc = "open"
    /\ End("raised", [exc |-> "PermissionError", errno |-> "EACCES",
                      filename |-> call.path])
    /\ UNCHANGED <<fs, exists, buf>>

\* if append: f.write('\n\n')
MdWriteSep ==
    /\ SinkOnly
    /\ call.tool = "md" /\ call.pc = "write_sep"
    /\ buf' = IF WritesSeparator(call.append) THEN Append(buf, Separator)
              ELSE buf
    /\ call' = [call EXCEPT !.pc = "write_table"]
    /\ UNCHANGED <<fs, exists, prev, ncalls>>

\* f.write(markdown_table): the text is encoded as a whole when written.
MdWriteTable ==
    /\ SinkOnly
    /\ call.tool = "md" /\ call.pc = "write_table"
    /\ IF Unencodable(call.text)
       THEN /\ call' = [call EXCEPT
                          !.pc = "unwind",
                          !.err = [NoErr EXCEPT !.exc = "UnicodeEncodeError"]]
            /\ UNCHANGED buf
       ELSE /\ call' = [call EXCEPT !.pc = "close"]
            /\ buf' = buf \o call.text
    /\ UNCHANGED <<fs, exists, prev, ncalls>>

Writing == {"write_sep", "write_table", "write_rows", "close", "unwind"}

\* The file receives the oldest buffered unit.
Flush ==
    /\ SinkOnly
    /\ call.pc \in Writing /\ buf # <<>>
    /\ fs' = [fs EXCEPT ![call.path] = Append(@, Head(buf))]
    /\ buf' = Tail(buf)
    /\ UNCHANGED <<exists, call, prev, ncalls>>

\* The device is full: the write raises OSError(ENOSPC), which names no
\* path, and what was buffered is lost.
FlushFails ==
    /\ SinkOnly
    /\ call.pc \in Writing /\ buf # <<>>
    /\ buf' = <<>>
    /\ End("raised", [exc |-> "OSError", errno |-> "ENOSPC",
                      filename |-> None])
    /\ UNCHANGED <<fs, exists>>

\* The with block ends normally; logger.info(...); return "... saved as ..."
MdClose ==
    /\ SinkOnly
    /\ call.tool = "md" /\ call.pc = "close" /\ buf = <<>>
    /\ End("returned", NoErr)
    /\ UNCHANGED <<fs, exists, buf>>

\* The with block (or to_csv's handle) is left by an exception: the file is
\* closed, which flushes, and the exception goes on to the caller.
Unwind ==
    /\ SinkOnly
    /\ call.pc = "unwind" /\ buf = <<>>
    /\ End("raised", call.err)
    /\ UNCHANGED <<fs, exists, buf>>

\* The process is interrupted inside the call: the buffer dies with it.
Kill ==
    /\ SinkOnly
    /\ call.pc \notin Ended
    /\ buf' = <<>>
    /\ End("killed", NoErr)
    /\ UNCHANGED <<fs, exists>>

\* CSVWriterTool._run(data, file_name)
CsvRun(data, path) ==
    /\ SinkOnly
    /\ Enter("csv", data, path, FALSE)

\* df = pd.DataFrame(data)
CsvFrame ==
    /\ SinkOnly
    /\ call.tool = "csv" /\ call.pc = "frame"
    /\ IF call.data.type # "list"
       THEN End("raised", [NoErr EXCEPT !.exc = "ValueError"])
       ELSE /\ call' = [call EXCEPT
                          !.todo = ToCsv(DataFrame(call.data.items)),
                          !.pc = "open"]
            /\ UNCHANGED <<prev, ncalls>>
    /\ UNCHANGED <<fs, exists, buf>>

\* df.to_csv(file_name, index=False) opens file_name with mode 'w' ...
CsvOpen ==
    /\ SinkOnly
    /\ call.tool = "csv" /\ call.pc = "open"
    /\ exists' = exists \cup {call.path}
    /\ fs' = [fs EXCEPT ![call.path] = <<>>]
    /\ call' = [call EXCEPT !.pc = "write_rows"]
    /\ UNCHANGED <<buf, prev, ncalls>>

\* ... and writes the header and the rows line by line, each encoded as it
\* is written.
CsvWriteLine ==
    /\ SinkOnly
    /\ call.tool = "csv" /\ call.pc = "write_rows" /\ call.todo # <<>>
    /\ IF Unencodable(<<Head(call.todo)>>)
       THEN /\ call' = [call EXCEPT
                          !.pc = "unwind",
                          !.err = [NoErr EXCEPT !.exc = "UnicodeEncodeError"]]
            /\ UNCHANGED buf
       ELSE /\ call' = [call EXCEPT !.todo = Tail(@)]
            /\ buf' = Append(buf, Head(call.todo))
    /\ UNCHANGED <<fs, exists, prev, ncalls>>

\* to_csv closes the file; logger.info(...); return "... saved as ..."
CsvClose ==
    /\ SinkOnly
    /\ call.tool = "csv" /\ call.pc = "write_rows"
    /\ call.todo = <<>> /\ buf = <<>>
    /\ End("returned", NoErr)
    /\ UNCHANGED <<fs, exists, buf>>


(***************************************************************************)
(* The script: load_dotenv(), then create_and_kickoff_crew(...), then      *)
(* print(result).  Crew, Task, Agent and the search, scrape and model      *)
(* services are collaborators; the model keeps of them what the script     *)
(* asks for: the tasks in list order under Process.sequential, each task   *)
(* reading the outputs of the tasks named in its context.                  *)
(***************************************************************************)

\* Collaborator calls made in one run.
MaxCollab == 4

\* The keys the docstring asks for: serper.dev, exa.ai, the model's.
Keys == {"SERPER_API_KEY", "EXA_API_KEY", "OPENAI_API_KEY"}

\* The key a collaborator needs, None when it needs none.
KeyOf(c) ==
    CASE c = "SerperDevTool" -> "SERPER_API_KEY"
      [] c = "EXASearchTool" -> "EXA_API_KEY"
      [] c = "model"         -> "OPENAI_API_KEY"
      [] OTHER               -> None

NoCrew == [agents |-> <<>>, tasks |-> <<>>, process |-> None]

Unbound == [bound |-> FALSE, outputs |-> {}, error |-> None]

NoExc == [type |-> None, from |-> None]

StageIds == 1..3

\* data_collector_tools and data_analyzer_tools
CollectorTools == {"SerperDevTool", "EXASearchTool", "ScrapeWebsiteTool"}
AnalyzerTools  == {"MarkdownTableTool", "CSVWriterTool"}

\* A slip: the markdown task reads the CSV task, which runs after it.
CreatedTasksForwardContext ==
    [collect  |-> [name |-> "collect", agent |-> "Data Collector",
                   tools |-> {"ScrapeWebsiteTool"}, context |-> {}],
     markdown |-> [name |-> "markdown", agent |-> "Data Analyzer",
                   tools |-> {"MarkdownTableTool"}, context |-> {"csv"}],
     csv      |-> [name |-> "csv", agent |-> "Data Analyzer",
                   tools |-> {"CSVWriterTool"}, context |-> {"collect"}]]

\* The three Task objects of create_tasks.
CreatedTasks ==
    [collect  |-> [name |-> "collect", agent |-> "Data Collector",
                   tools |-> {"ScrapeWebsiteTool"}, context |-> {}],
     markdown |-> [name |-> "markdown", agent |-> "Data Analyzer",
                   tools |-> {"MarkdownTableTool"}, context |-> {"collect"}],
     csv      |-> [name |-> "csv", agent |-> "Data Analyzer",
                   tools |-> {"CSVWriterTool"}, context |-> {"collect"}]]

\* tasks=[collect_reviews_task, analyze_reviews_markdown_task,
\*        analyze_reviews_csv_task]
CrewTaskOrder == <<"collect", "markdown", "csv">>

\* A slip: a process in which the manager picks the next task.
CrewProcessHierarchical == "hierarchical"

\* process=Process.sequential
CrewProcess == "sequential"

\* load_dotenv(): the .env file adds the keys the environment does not set.
LoadDotenv ==
    /\ PipeOnly
    /\ pc = "load_dotenv"
    /\ env' = osenv \cup dotfile
    /\ pc' = "tools"
    /\ UNCHANGED <<osenv, dotfile, built, agents, tasks, crew, stage, ctxIn,
                   outputs, collab, exc, result, stdout>>

\* data_collector_tools = [SerperDevTool(), EXASearchTool(),
\* ScrapeWebsiteTool()]; data_analyzer_tools = [MarkdownTableTool(),
\* CSVWriterTool()]: nothing is read from the environment before this.
ConstructTools ==
    /\ PipeOnly
    /\ pc = "tools"
    /\ built' = CollectorTools \cup AnalyzerTools
    /\ pc' = "agents"
    /\ UNCHANGED <<osenv, dotfile, env, agents, tasks, crew, stage, ctxIn,
                   outputs, collab, exc, result, stdout>>

\* create_agents(...)
CreateAgents ==
    /\ PipeOnly
    /\ pc = "agents"
    /\ agents' = << [role |-> "Data Collector", tools |-> CollectorTools],
                    [role |-> "Data Analyzer",  tools |-> AnalyzerTools] >>
    /\ pc' = "tasks"
    /\ UNCHANGED <<osenv, dotfile, env, built, tasks, crew, stage, ctxIn,
                   outputs, collab, exc, result, stdout>>

\* create_tasks(...)
CreateTasks ==
    /\ PipeOnly
    /\ pc = "tasks"
    /\ tasks' = CreatedTasks
    /\ pc' = "crew"
    /\ UNCHANGED <<osenv, dotfile, env, built, agents, crew, stage, ctxIn,
                   outputs, collab, exc, result, stdout>>

\* reviews_crew = Crew(agents=..., tasks=[...], process=Process.sequential)
CreateCrew ==
    /\ PipeOnly
    /\ pc = "crew"
    /\ crew' = [agents  |-> agents,
                tasks   |-> [i \in 1..Len(CrewTaskOrder) |->
                                tasks[CrewTaskOrder[i]]],
                process |-> CrewProcess]
    /\ pc' = "kickoff"
    /\ UNCHANGED <<osenv, dotfile, env, built, agents, tasks, stage, ctxIn,
                   outputs, collab, exc, result, stdout>>

\* result = reviews_crew.kickoff(): the call is entered.
Kickoff ==
    /\ PipeOnly
    /\ pc = "kickoff"
    /\ pc' = "running"
    /\ UNCHANGED <<osenv, dotfile, env, built, agents, tasks, crew, stage,
                   ctxIn, outputs, collab, exc, result, stdout>>

Started(i) == stage[i] # "pending"

\* The next task the crew may start.
CanStart(i) ==
    /\ stage[i] = "pending"
    /\ \A j \in StageIds : stage[j] # "running"
    /\ crew.process = "sequential" =>
          \A j \in StageIds : j < i => stage[j] = "done"

\* The crew hands task i the outputs of the tasks in its context.
StartStage(i) ==
    /\ PipeOnly
    /\ pc = "running"
    /\ CanStart(i)
    /\ stage' = [stage EXCEPT ![i] = "running"]
    /\ ctxIn' = [ctxIn EXCEPT ![i] =
                    {<<crew.tasks[j].name, outputs[j]>> :
                        j \in {k \in StageIds :
                                 /\ crew.tasks[k].name \in crew.tasks[i].context
                                 /\ stage[k] = "done"}}]
    /\ UNCHANGED <<pc, osenv, dotfile, env, built, agents, tasks, crew,
                   outputs, collab, exc, result, stdout>>

Collaborators(i) == {"model"} \cup crew.tasks[i].tools

HasKeyFor(c) == KeyOf(c) = None \/ KeyOf(c) \in env

\* The agent of task i calls the model or one of the task's tools, and the
\* call answers.
CollabCallOk(i, c) ==
    /\ PipeOnly
    /\ pc = "running" /\ stage[i] = "running"
    /\ c \in Collaborators(i)
    /\ Len(collab) < MaxCollab
    /\ HasKeyFor(c)
    /\ collab' = Append(collab, [stage |-> i, who |-> c, keyed |-> TRUE,
                                 ok |-> TRUE])
    /\ UNCHANGED <<pc, osenv, dotfile, env, built, agents, tasks, crew, stage,
                   ctxIn, outputs, exc, result, stdout>>

\* The call fails (no key, or the service is down).  Nothing between
\* kickoff() and the end of the script catches the exception: it leaves
\* kickoff(), create_and_kickoff_crew() and the module, `result` is never
\* bound and print(result) is never reached.
CollabCallFails(i, c) ==
    /\ PipeOnly
    /\ pc = "running" /\ stage[i] = "running"
    /\ c \in Collaborators(i)
    /\ Len(collab) < MaxCollab
    /\ collab' = Append(collab, [stage |-> i, who |-> c,
                                 keyed |-> HasKeyFor(c), ok |-> FALSE])
    /\ stage' = [stage EXCEPT ![i] = "failed"]
    /\ exc' = [type |-> "CollaboratorError", from |-> c]
    /\ pc' = "crashed"
    /\ UNCHANGED <<osenv, dotfile, env, built, agents, tasks, crew, ctxIn,
                   outputs, result, stdout>>

OutputOf(i) == <<"output", crew.tasks[i].name>>

\* Task i ends with an output, its agent having asked the model at least once.
FinishStage(i) ==
    /\ PipeOnly
    /\ pc = "running" /\ stage[i] = "running"
    /\ \E n \in 1..Len(collab) :
          collab[n].stage = i /\ collab[n].who = "model" /\ collab[n].ok
    /\ stage' = [stage EXCEPT ![i] = "done"]
    /\ outputs' = [outputs EXCEPT ![i] = OutputOf(i)]
    /\ UNCHANGED <<pc, osenv, dotfile, env, built, agents, tasks, crew, ctxIn,
                   collab, exc, result, stdout>>

\* kickoff() returns the output of the last task; logger.info(...);
\* return result; result = create_and_kickoff_crew(...)
Return ==
    /\ PipeOnly
    /\ pc = "running"
    /\ \A i \in StageIds : stage[i] = "done"
    /\ result' = [bound   |-> TRUE,
                  outputs |-> {<<crew.tasks[Len(crew.tasks)].name,
                                 outputs[Len(crew.tasks)]>>},
                  error   |-> None]
    /\ pc' = "print"
    /\ UNCHANGED <<osenv, dotfile, env, built, agents, tasks, crew, stage,
                   ctxIn, outputs, collab, exc, stdout>>

\* print(result)
PrintResult ==
    /\ PipeOnly
    /\ pc = "print"
    /\ stdout' = <<result>>
    /\ pc' = "exit"
    /\ UNCHANGED <<osenv, dotfile, env, built, agents, tasks, crew, stage,
                   ctxIn, outputs, collab, exc, result>>

(***************************************************************************)
(* Specifications                                                          *)
(***************************************************************************)

RenderIdle ==
    /\ rs = <<>> /\ df = [columns |-> <<>>, rows |-> <<>>]
    /\ mdText = <<>> /\ csvText = <<>> /\ rpc = "idle"

SinkIdle ==
    /\ fs = [p \in Paths |-> <<>>] /\ exists = {}
    /\ call = IdleCall /\ buf = <<>>
    /\ prev = Summary(IdleCall) /\ ncalls = 0

PipeStart ==
    /\ pc = "load_dotenv"
    /\ env = osenv
    /\ built = {} /\ agents = <<>> /\ tasks = <<>> /\ crew = NoCrew
    /\ stage = [i \in StageIds |-> "pending"]
    /\ ctxIn = [i \in StageIds |-> {}]
    /\ outputs = [i \in StageIds |-> None]
    /\ collab = <<>> /\ exc = NoExc /\ result = Unbound /\ stdout = <<>>

PipeIdle == osenv = {} /\ dotfile = {} /\ PipeStart

\* ---- the script
Init ==
    /\ osenv \in SUBSET Keys /\ dotfile \in SUBSET Keys
    /\ PipeStart /\ SinkIdle /\ RenderIdle

Next ==
    \/ LoadDotenv \/ ConstructTools \/ CreateAgents \/ CreateTasks
    \/ CreateCrew \/ Kickoff \/ Return \/ PrintResult
    \/ \E i \in StageIds : StartStage(i) \/ FinishStage(i)
    \/ \E i \in StageIds, c \in CollectorTools \cup AnalyzerTools \cup {"model"} :
          CollabCallOk(i, c) \/ CollabCallFails(i, c)

Spec == Init /\ [][Next]_vars

\* ---- the tools
SinkInit == SinkIdle /\ PipeIdle /\ RenderIdle

SinkNext ==
    \/ \E d \in SinkInputs, p \in Paths, a \in BOOLEAN : MdRun(d, p, a)
    \/ \E d \in SinkInputs, p \in Paths : CsvRun(d, p)
    \/ MdFrame \/ MdOpen \/ OpenDenied \/ MdWriteSep \/ MdWriteTable
    \/ Flush \/ FlushFails \/ MdClose \/ Unwind \/ Kill
    \/ CsvFrame \/ CsvOpen \/ CsvWriteLine \/ CsvClose

SinkSpec == SinkInit /\ [][SinkNext]_vars


\* ---- the table
\* df = pd.DataFrame(data)
BuildFrame ==
    /\ RenderOnly
    /\ rpc = "input"
    /\ df' = DataFrame(rs)
    /\ rpc' = "frame"
    /\ UNCHANGED <<rs, mdText, csvText>>

\* markdown_table = df.to_markdown(index=False)
RenderMarkdown ==
    /\ RenderOnly
    /\ rpc = "frame"
    /\ mdText' = ToMarkdown(df)
    /\ rpc' = "markdown"
    /\ UNCHANGED <<rs, df, csvText>>

\* df.to_csv(file_name, index=False)
RenderCsv ==
    /\ RenderOnly
    /\ rpc = "frame"
    /\ csvText' = ToCsv(df)
    /\ rpc' = "csv"
    /\ UNCHANGED <<rs, df, mdText>>

RenderInit ==
    /\ rs \in RecordSets
    /\ df = [columns |-> <<>>, rows |-> <<>>]
    /\ mdText = <<>> /\ csvText = <<>> /\ rpc = "input"
    /\ SinkIdle /\ PipeIdle

RenderNext == BuildFrame \/ RenderMarkdown \/ RenderCsv

RenderSpec == RenderInit /\ [][RenderNext]_vars


(***************************************************************************)
(* Properties                                                              *)
(***************************************************************************)

\* C1: when stage 1 succeeded and stage 2 failed, stage 3 was never started
\* and the report handed back holds stage 1's output, an error naming
\* stage 2, and no output for stage 3.
C1_AbortReport ==
    (pc = "crashed" /\ stage[1] = "done" /\ stage[2] = "failed") =>
        /\ stage[3] = "pending"
        /\ result.bound
        /\ <<crew.tasks[1].name, outputs[1]>> \in result.outputs
        /\ result.error = crew.tasks[2].name
        /\ \A o \in result.outputs : o[1] # crew.tasks[3].name

\* C2: the stages run in the order collect, markdown, csv; a stage that has
\* begun has every predecessor completed, and at most one stage is running.
C2_Sequential ==
    crew # NoCrew =>
        /\ [i \in StageIds |-> crew.tasks[i].name]
              = <<"collect", "markdown", "csv">>
        /\ \A i, j \in StageIds :
              (Started(i) /\ j < i) => stage[j] = "done"
        /\ Cardinality({i \in StageIds : stage[i] = "running"}) <= 1

C2_ThirdStageRunning ==
    stage[3] = "running" /\ stage[1] = "done" /\ stage[2] = "done"

\* C3: every task of the crew names as context only tasks that precede it in
\* the crew's order: markdown and csv name exactly collect, which is first
\* and names none.
C3_ContextPrecedes ==
    crew # NoCrew =>
        /\ \A i \in 1..Len(crew.tasks) :
              \A c \in crew.tasks[i].context :
                 \E j \in 1..(i - 1) : crew.tasks[j].name = c
        /\ crew.tasks[1].name = "collect" /\ crew.tasks[1].context = {}
        /\ crew.tasks[2].name = "markdown"
        /\ crew.tasks[2].context = {"collect"}
        /\ crew.tasks[3].name = "csv"
        /\ crew.tasks[3].context = {"collect"}

C3_CrewBuilt ==
    crew # NoCrew /\ Len(crew.tasks) = 3 /\ pc = "kickoff"

Overwrites(c) == c.tool = "csv" \/ (c.tool = "md" /\ ~c.append)

\* What a completed call of c writes.
NewContent(c) ==
    IF c.tool = "md" THEN ToMarkdown(DataFrame(c.data.items))
    ELSE ToCsv(DataFrame(c.data.items))

\* The destination held the complete content of the call before.
HeldComplete(c) ==
    /\ c.existed
    /\ prev.path = c.path /\ prev.outcome = "returned"

\* C4: an overwriting call on a destination that holds a complete earlier
\* content leaves it, in every state, with the old complete content or the
\* new complete content, and with the new one once the call has returned.
C4_AtomicReplace ==
    (Overwrites(call) /\ HeldComplete(call)) =>
        /\ \/ fs[call.path] = call.before
           \/ call.data.type = "list" /\ fs[call.path] = NewContent(call)
        /\ call.pc = "returned" => fs[call.path] = NewContent(call)

\* C5: an append call on a destination that does not exist or is empty
\* leaves exactly the rendered table, with no leading separator.
C5_NoLeadingSeparator ==
    ( /\ call.tool = "md" /\ call.append /\ call.pc = "returned"
      /\ (~call.existed \/ call.before = <<>>) ) =>
        fs[call.path] = NewContent(call)

\* C6: a completed overwrite of A followed by a completed append of B on the
\* same destination leaves A, the separator, B and nothing else; and an
\* append call keeps, at every point, the content it found as a prefix.
C6_AppendAfterWrite ==
    /\ ( /\ prev.tool = "md" /\ ~prev.append /\ prev.outcome = "returned"
         /\ call.tool = "md" /\ call.append /\ call.pc = "returned"
         /\ call.path = prev.path ) =>
          fs[call.path] =
              ToMarkdown(DataFrame(prev.data.items))
              \o <<Separator>>
              \o ToMarkdown(DataFrame(call.data.items))
    /\ (call.tool = "md" /\ call.append) =>
          IsPrefix(call.before, fs[call.path])

C6_WroteThenAppended ==
    /\ prev.tool = "md" /\ ~prev.append /\ prev.outcome = "returned"
    /\ call.tool = "md" /\ call.append /\ call.pc = "returned"
    /\ call.path = prev.path
    /\ prev.data.items = ExampleRecords /\ call.data.items = OneRecord
    /\ Len(fs[call.path]) = 8

SinkFailure(c) ==
    c.pc = "raised" /\ c.err.exc \in {"PermissionError", "OSError"}

\* C7: a write that fails because the destination is unwritable (permission
\* denied at open, disk full during the write) reports its cause and leaves
\* the file that existed before the call with the content it had.  (The
\* claim also has the path reported; the OSError of a failed write carries
\* none, and the formula leaves the path aside.)
C7_SinkFailureUntouched ==
    (SinkFailure(call) /\ call.existed /\ call.before # <<>>) =>
        /\ call.err.errno # None
        /\ fs[call.path] = call.before

RenderFailure(c) ==
    /\ c.pc \in {"unwind", "raised"}
    /\ c.err.exc \in {"ValueError", "UnicodeEncodeError"}

\* C8: a call whose data cannot be rendered fails without having opened,
\* truncated or partly rewritten the destination: a file written by an
\* earlier call keeps its content, in overwrite and in append mode.
C8_RenderFailureUntouched ==
    (RenderFailure(call) /\ HeldComplete(call)) =>
        fs[call.path] = call.before

KeySet(rec) == {rec[i][1] : i \in 1..Len(rec)}

\* Where key k is first seen in R: <<record index, position in the record>>.
FirstSeen(R, k) ==
    LET i == CHOOSE n \in 1..Len(R) :
                /\ k \in KeySet(R[n])
                /\ \A m \in 1..(n - 1) : k \notin KeySet(R[m])
    IN  <<i, CHOOSE q \in 1..Len(R[i]) : R[i][q][1] = k>>

Earlier(a, b) == a[1] < b[1] \/ (a[1] = b[1] /\ a[2] < b[2])

RowLines(text) == {i \in 1..Len(text) : text[i][1] = "row"}

C10_ValidatedBeforeUse ==
    (pc # "load_dotenv" /\ Keys \ env # {}) =>
        /\ built = {}
        /\ \A i \in StageIds : ~Started(i)
        /\ \A n \in 1..Len(collab) : collab[n].keyed
        /\ pc = "crashed" => exc.type = "MissingCredential"

====
